---- MODULE Spec2Model ----
(***************************************************************************)
(* A model of script.js: the shared-navbar loader, the header behaviours,  *)
(* the gallery lightbox, the menu filter and the contact form of a static  *)
(* site, as one page load driven by the browser's event loop.              *)
(*                                                                         *)
(* One step of the model is one task of the event loop: the script's       *)
(* synchronous run, the settling of the fetch (with the microtasks that    *)
(* follow it), a timer callback, or the complete dispatch of one DOM       *)
(* event to every listener registered for it.                              *)
(*                                                                         *)
(* The page's markup is not part of script.js.  It is described by the     *)
(* record `page` (which elements the document holds) and is assumed to be  *)
(* parsed when the script runs (a script at the end of the body).          *)
(***************************************************************************)
EXTENDS Integers, Sequences, FiniteSets, TLC

VARIABLES
    page,              \* the markup of the document (fixed during a page load)
    stored,            \* localStorage['pgc-theme']: "none" (absent), "dark", "light"
    dataTheme,         \* <html data-theme>: "none" (absent) or "dark"
    script,            \* "notrun" | "ran": the synchronous run of script.js
    nav,               \* loadNavbar(): "idle" | "fetching" | "reading" | "fulfilled" | "rejected"
    navOutcome,        \* "none" | "injected" | "networkError" | "httpError" | "bodyError"
    fetches,           \* number of fetch('navbar.html') calls issued
    fetched,           \* the text of the response body ("none" before it is read)
    container,         \* innerHTML of #navbar-container
    dcl,               \* "notfired" | "fired": the DOMContentLoaded event
    dclListeners,      \* DOMContentLoaded listeners registered by init()
    dclHandled,        \* listeners the DOMContentLoaded event was dispatched to
    timers,            \* pending setTimeout callbacks, in creation order
    navPathRuns,       \* times the loadNavbar().then callback ran
    fallbackRuns,      \* times the 90 ms fallback callback ran
    fallbackAt,        \* ms between DOMContentLoaded and the fallback callback (-1: not run)
    fadeRuns,          \* calls of setupFadeOnScroll
    observers,         \* IntersectionObservers created
    lightboxRuns,      \* calls of setupLightbox
    lightboxRoots,     \* number of #lightbox-root elements in the document
    docClickListeners, \* document click listeners of the lightbox
    filterRuns,        \* calls of setupMenuFilter
    chipListeners,     \* chip |-> number of click listeners on it
    formRuns,          \* calls of setupContactForm
    submitListeners,   \* submit listeners on #contactForm
    navFeaturesRuns,   \* calls of setupNavbarFeatures
    scrollListeners,   \* window scroll listeners
    aria,              \* aria-expanded of #menuToggle: "false" | "true"
    toggleListeners,   \* click listeners on #menuToggle: the class each toggles on the nav list
    navClasses,        \* classes of the navigation list among {"open", "show"}
    themeIcon,         \* textContent of #themeToggle: "markup" | "sun" | "moon"
    themeListeners,    \* click listeners on #themeToggle
    themeClicked,      \* some theme-toggle click has been handled
    form,              \* the values of the name, email and message inputs
    feedback,          \* textContent of #formFeedback
    active,            \* chips carrying the class "active"
    display,           \* menu item |-> style.display ("" or "none")
    overlays,          \* lightbox overlays attached to document.body
    keyHandlers,       \* overlays whose onKey handler is registered on document
    ev                 \* the event dispatched by the last step, with what it saw

envVars      == <<page, stored, dataTheme>>
loadVars     == <<script, nav, navOutcome, fetches, fetched, container, dcl,
                  dclListeners, dclHandled, navPathRuns, fallbackRuns,
                  fallbackAt>>
setupVars    == <<fadeRuns, observers, lightboxRuns, lightboxRoots,
                  docClickListeners, filterRuns, chipListeners, formRuns,
                  submitListeners>>
headerVars   == <<navFeaturesRuns, scrollListeners, aria, toggleListeners,
                  navClasses, themeIcon, themeListeners, themeClicked>>
formVars     == <<form, feedback>>
filterVars   == <<active, display>>
lightboxVars == <<overlays, keyHandlers>>

vars == <<page, stored, dataTheme, script, nav, navOutcome, fetches, fetched,
          container, dcl, dclListeners, dclHandled, timers, navPathRuns,
          fallbackRuns, fallbackAt, fadeRuns, observers, lightboxRuns, lightboxRoots,
          docClickListeners, filterRuns, chipListeners, formRuns,
          submitListeners, navFeaturesRuns, scrollListeners, aria,
          toggleListeners, navClasses, themeIcon, themeListeners, themeClicked,
          form, feedback, active, display, overlays, keyHandlers, ev>>

(***************************************************************************)
(* Bounds of the model.                                                    *)
(***************************************************************************)
MaxPending == 2     \* pending feedback-clearing timers
MaxOverlays == 3    \* lightbox overlays open at once

\* Time also passes in steps shorter than the next timer's remaining delay.
AdvanceSteps == {3000}

(***************************************************************************)
(* Constants of the program.                                               *)
(***************************************************************************)
FallbackDelayMs == 90
FeedbackDelayMs == 6000

FillMsg   == "Please fill in all fields."
EmailMsg  == "Please enter a valid email address."
\* (the source separates the two halves with a dash)
ThanksMsg == "Thanks! Your message has been received - we will reply soon."

NoEvent == [type |-> "none"]

(***************************************************************************)
(* The markup script.js works on.                                          *)
(***************************************************************************)
\* layout: where #menuToggle, #main-nav.nav-list and #themeToggle come from:
\*   "page"     they are in the page itself, outside #navbar-container;
\*   "fragment" they are in navbar.html and exist once it is injected;
\*   "none"     no such elements anywhere.
Layouts == {"page", "fragment", "none"}

InitialContent == "placeholder"
FragmentTexts  == {"navbar-a", "navbar-b"}

\* data-filter of each .chip and data-category of each .menu-item
ChipFilter   == <<"all", "drinks", "food">>
ItemCategory == <<"drinks", "food", "dessert">>

PageChips == IF page.chips THEN ChipFilter ELSE <<>>
PageItems == IF page.items THEN ItemCategory ELSE <<>>

\* The values the user types into the three inputs.
Names    == {<<>>, <<" ">>, <<"J">>}
Emails   == {<<>>, <<"n", "o">>, <<"a", "@", "b">>,
             <<"a", "@", "b", ".", "c">>,
             <<" ", "a", "@", "b", ".", "c", " ">>,
             <<"a", " ", "@", "b", ".", "c">>}
Messages == {<<>>, <<"H">>}

\* The values form.reset() restores: inputs without a value attribute.
DefaultValues == [name |-> <<>>, email |-> <<>>, message |-> <<>>]


(***************************************************************************)
(* Strings are sequences of one-character strings.                         *)
(***************************************************************************)
IsSpace(ch) == ch = " "

\* String.prototype.trim: drop the white space at both ends.
RECURSIVE TrimStart(_)
TrimStart(s) ==
    IF s = <<>> THEN <<>>
    ELSE IF IsSpace(Head(s)) THEN TrimStart(Tail(s)) ELSE s

RECURSIVE TrimEnd(_)
TrimEnd(s) ==
    IF s = <<>> THEN <<>>
    ELSE IF IsSpace(s[Len(s)]) THEN TrimEnd(SubSeq(s, 1, Len(s) - 1)) ELSE s

Trim(s) == TrimEnd(TrimStart(s))

\* /\S+@\S+\.\S+/.test(s): an unanchored search.  A match is an "@" at i with
\* a non-space before it, a "." at j with a non-space after it, and only
\* non-spaces (at least one) between the two.
ReTest(s) ==
    \E i \in 2..Len(s) :
        /\ s[i] = "@"
        /\ ~IsSpace(s[i - 1])
        /\ \E j \in (i + 2)..(Len(s) - 1) :
              /\ s[j] = "."
              /\ ~IsSpace(s[j + 1])
              /\ \A k \in (i + 1)..(j - 1) : ~IsSpace(s[k])

(***************************************************************************)
(* Timers: setTimeout(cb, delay).  `left` is the delay still to run and    *)
(* `age` the time since the call.                                          *)
(***************************************************************************)
SetTimeout(ts, cb, delay) == Append(ts, [cb |-> cb, left |-> delay, age |-> 0])

RemoveAt(ts, i) == SubSeq(ts, 1, i - 1) \o SubSeq(ts, i + 1, Len(ts))

\* The timer the event loop runs next: the oldest one whose delay has run out.
Due(ts, i) ==
    /\ i \in DOMAIN ts
    /\ ts[i].left = 0
    /\ \A j \in 1..(i - 1) : ts[j].left > 0

MinLeft(ts) == CHOOSE m \in {ts[i].left : i \in DOMAIN ts} :
                   \A i \in DOMAIN ts : m <= ts[i].left

Pending(ts, cb) == Cardinality({i \in DOMAIN ts : ts[i].cb = cb})

(***************************************************************************)
(* The feature initialisers (each is called once by each of the two paths  *)
(* of init).                                                               *)
(***************************************************************************)
setupFadeOnScroll ==
    /\ fadeRuns' = fadeRuns + 1
    /\ observers' = IF ~page.hasFaders THEN observers ELSE observers + 1

setupLightbox ==
    /\ lightboxRuns' = lightboxRuns + 1
    /\ lightboxRoots' = IF lightboxRoots > 0 THEN lightboxRoots
                        ELSE lightboxRoots + 1
    /\ docClickListeners' = docClickListeners + 1

setupMenuFilter ==
    /\ filterRuns' = filterRuns + 1
    /\ chipListeners' =
          IF Len(PageChips) = 0 \/ Len(PageItems) = 0 THEN chipListeners
          ELSE [c \in DOMAIN chipListeners |-> chipListeners[c] + 1]

\* A variant with a one-time latch on the listener.
setupContactFormLatched ==
    /\ formRuns' = formRuns + 1
    /\ submitListeners' = IF ~page.hasForm \/ submitListeners > 0
                          THEN submitListeners
                          ELSE submitListeners + 1

setupContactForm ==
    /\ formRuns' = formRuns + 1
    /\ submitListeners' = IF ~page.hasForm THEN submitListeners
                          ELSE submitListeners + 1

\* setupFadeOnScroll(); setupLightbox(); setupMenuFilter(); setupContactForm();
\* setupLazyImages() changes nothing.
SetupFeatures ==
    /\ setupFadeOnScroll
    /\ setupLightbox
    /\ setupMenuFilter
    /\ setupContactForm

(***************************************************************************)
(* The header.                                                             *)
(***************************************************************************)
\* #menuToggle, #main-nav and #themeToggle are in the document.
HeaderInDocument ==
    \/ page.layout = "page"
    \/ page.layout = "fragment" /\ navOutcome = "injected"

\* setupNavbarFeatures(), called right after the injection of the fragment.
setupNavbarFeatures ==
    LET present == page.layout \in {"page", "fragment"} IN
    /\ navFeaturesRuns' = navFeaturesRuns + 1
    /\ IF stored = "dark"
       THEN /\ dataTheme' = "dark"
            /\ themeIcon' = IF present THEN "sun" ELSE themeIcon
       ELSE /\ dataTheme' = dataTheme
            /\ themeIcon' = IF present THEN "moon" ELSE themeIcon
    /\ scrollListeners' = scrollListeners + 1
    /\ toggleListeners' = IF present THEN Append(toggleListeners, "open")
                          ELSE toggleListeners
    /\ themeListeners' = IF present THEN themeListeners + 1 ELSE themeListeners
    /\ UNCHANGED <<aria, navClasses, themeClicked>>

\* The block after the module: a second click listener on #menuToggle, which
\* toggles "show" on the .nav-list found when the script runs.
TrailingBlock ==
    toggleListeners' = IF page.layout = "page"
                       THEN Append(toggleListeners, "show")
                       ELSE toggleListeners

(***************************************************************************)
(* loadNavbar and init.                                                    *)
(***************************************************************************)
\* The .then callback of init: it runs in the task in which loadNavbar settles.
ThenCallback ==
    /\ navPathRuns' = navPathRuns + 1
    /\ SetupFeatures

\* A variant whose catch block throws again: the promise of loadNavbar is
\* rejected and the .then callback does not run.
LoadNavbarCatchRethrows(outcome) ==
    /\ nav' = "rejected"
    /\ navOutcome' = outcome
    /\ UNCHANGED <<fetches, fetched, container, headerVars, dataTheme,
                   navPathRuns, setupVars>>

\* catch (err) { console.error(...) }: loadNavbar returns normally.
LoadNavbarCatch(outcome) ==
    /\ nav' = "fulfilled"
    /\ navOutcome' = outcome
    /\ UNCHANGED <<fetches, fetched, container, headerVars, dataTheme>>
    /\ ThenCallback

\* What no step of the loader touches.
LoadFrame ==
    /\ ev' = NoEvent
    /\ UNCHANGED <<page, stored, script, dcl, dclListeners, dclHandled, timers,
                   fallbackRuns, fallbackAt, formVars, filterVars,
                   lightboxVars>>

\* The synchronous run of the file: init() and then the trailing block.
RunScript ==
    /\ script = "notrun"
    /\ script' = "ran"
    /\ nav' = "fetching"
    /\ fetches' = fetches + 1
    /\ dclListeners' = dclListeners + 1
    /\ TrailingBlock
    /\ ev' = NoEvent
    /\ UNCHANGED <<envVars, navOutcome, fetched, container, dcl, dclHandled,
                   timers, navPathRuns, fallbackRuns, fallbackAt, setupVars,
                   navFeaturesRuns, scrollListeners, aria, navClasses,
                   themeIcon, themeListeners, themeClicked, formVars,
                   filterVars, lightboxVars>>

\* fetch rejects: a network error.
FetchReject ==
    /\ nav = "fetching"
    /\ LoadNavbarCatch("networkError")
    /\ LoadFrame

\* fetch resolves with a response that is not ok: loadNavbar throws.
FetchNotOk ==
    /\ nav = "fetching"
    /\ LoadNavbarCatch("httpError")
    /\ LoadFrame

\* fetch resolves with res.ok: loadNavbar awaits res.text().
FetchOk ==
    /\ nav = "fetching"
    /\ nav' = "reading"
    /\ UNCHANGED <<navOutcome, fetches, fetched, container, headerVars,
                   dataTheme, navPathRuns, setupVars>>
    /\ LoadFrame

\* res.text() resolves: inject, wire the header, then the .then callback.
TextResolve(html) ==
    /\ nav = "reading"
    /\ fetched' = html
    /\ container' = html
    /\ setupNavbarFeatures
    /\ nav' = "fulfilled"
    /\ navOutcome' = "injected"
    /\ UNCHANGED fetches
    /\ ThenCallback
    /\ LoadFrame

\* res.text() rejects: the body could not be read.
TextReject ==
    /\ nav = "reading"
    /\ LoadNavbarCatch("bodyError")
    /\ LoadFrame

\* DOMContentLoaded: every listener init registered calls setTimeout(..., 90).
DOMContentLoaded ==
    /\ dcl = "notfired"
    /\ dcl' = "fired"
    /\ dclHandled' = dclListeners
    /\ timers' = IF dclListeners > 0
                 THEN SetTimeout(timers, "fallback", FallbackDelayMs)
                 ELSE timers
    /\ ev' = NoEvent
    /\ UNCHANGED <<envVars, script, nav, navOutcome, fetches, fetched,
                   container, dclListeners, navPathRuns, fallbackRuns,
                   fallbackAt, setupVars, headerVars, formVars, filterVars,
                   lightboxVars>>

\* The fallback callback of init.
FallbackTimerFire ==
    \E i \in DOMAIN timers :
        /\ Due(timers, i)
        /\ timers[i].cb = "fallback"
        /\ timers' = RemoveAt(timers, i)
        /\ fallbackRuns' = fallbackRuns + 1
        /\ fallbackAt' = timers[i].age
        /\ SetupFeatures
        /\ ev' = NoEvent
        /\ UNCHANGED <<envVars, script, nav, navOutcome, fetches, fetched,
                       container, dcl, dclListeners, dclHandled, navPathRuns,
                       headerVars, formVars, filterVars, lightboxVars>>

\* Time passes: by d ms, never beyond the next timer's delay.
Advance(d) ==
    /\ timers # <<>>
    /\ d > 0
    /\ d <= MinLeft(timers)
    /\ timers' = [i \in DOMAIN timers |->
                     [timers[i] EXCEPT !.left = @ - d, !.age = @ + d]]
    /\ ev' = NoEvent
    /\ UNCHANGED <<envVars, loadVars, setupVars, headerVars, formVars,
                   filterVars, lightboxVars>>

Tick ==
    /\ timers # <<>>
    /\ \E d \in AdvanceSteps \cup {MinLeft(timers)} : Advance(d)


(***************************************************************************)
(* Header events.                                                          *)
(***************************************************************************)
\* One click listener of #menuToggle; cls is the class it toggles.
ToggleListener(st, cls) ==
    [aria    |-> IF st.aria = "true" THEN "false" ELSE "true",
     classes |-> IF cls \in st.classes THEN st.classes \ {cls}
                 ELSE st.classes \cup {cls}]

RECURSIVE RunToggleListeners(_, _)
RunToggleListeners(st, ls) ==
    IF ls = <<>> THEN st
    ELSE RunToggleListeners(ToggleListener(st, Head(ls)), Tail(ls))

\* A click on #menuToggle, dispatched to its listeners in registration order.
MenuToggleClick ==
    /\ HeaderInDocument
    /\ LET st == RunToggleListeners([aria |-> aria, classes |-> navClasses],
                                    toggleListeners) IN
          /\ aria' = st.aria
          /\ navClasses' = st.classes
    /\ ev' = [type |-> "menu", flips |-> Len(toggleListeners)]
    /\ UNCHANGED <<envVars, loadVars, timers, setupVars, navFeaturesRuns,
                   scrollListeners, toggleListeners, themeIcon, themeListeners,
                   themeClicked, formVars, filterVars, lightboxVars>>

\* A variant that leaves the persisted flag in place when it turns dark off.
ThemeListenerKeepsFlag(st) ==
    IF st.dataTheme = "dark"
    THEN [dataTheme |-> "none", stored |-> st.stored, icon |-> "moon"]
    ELSE [dataTheme |-> "dark", stored |-> "dark", icon |-> "sun"]

\* The click listener of #themeToggle.
ThemeListener(st) ==
    IF st.dataTheme = "dark"
    THEN [dataTheme |-> "none", stored |-> "none", icon |-> "moon"]
    ELSE [dataTheme |-> "dark", stored |-> "dark", icon |-> "sun"]

RECURSIVE RunThemeListeners(_, _)
RunThemeListeners(st, n) ==
    IF n = 0 THEN st ELSE RunThemeListeners(ThemeListener(st), n - 1)

\* A click on #themeToggle.
ThemeToggleClick ==
    /\ HeaderInDocument
    /\ LET st == RunThemeListeners([dataTheme |-> dataTheme, stored |-> stored,
                                    icon |-> themeIcon], themeListeners) IN
          /\ dataTheme' = st.dataTheme
          /\ stored' = st.stored
          /\ themeIcon' = st.icon
    /\ themeClicked' = (themeClicked \/ themeListeners > 0)
    /\ ev' = [type |-> "theme", handlers |-> themeListeners,
              wasDark |-> (dataTheme = "dark")]
    /\ UNCHANGED <<page, loadVars, timers, setupVars, navFeaturesRuns,
                   scrollListeners, aria, toggleListeners, navClasses,
                   themeListeners, formVars, filterVars, lightboxVars>>

(***************************************************************************)
(* The contact form.                                                       *)
(***************************************************************************)
\* A variant that tests the email pattern before the empty fields.
SubmitListenerEmailFirst(st) ==
    LET name    == Trim(st.form.name)
        email   == Trim(st.form.email)
        message == Trim(st.form.message)
    IN  IF ~ReTest(email)
        THEN [st EXCEPT !.feedback = EmailMsg]
        ELSE IF name = <<>> \/ email = <<>> \/ message = <<>>
        THEN [st EXCEPT !.feedback = FillMsg]
        ELSE [form     |-> DefaultValues,
              feedback |-> ThanksMsg,
              timers   |-> SetTimeout(st.timers, "clearFeedback",
                                      FeedbackDelayMs)]

\* A variant without the return after the email message: it goes on to the
\* acknowledgement.
SubmitListenerNoReturn(st) ==
    LET name    == Trim(st.form.name)
        email   == Trim(st.form.email)
        message == Trim(st.form.message)
    IN  IF name = <<>> \/ email = <<>> \/ message = <<>>
        THEN [st EXCEPT !.feedback = FillMsg]
        ELSE [form     |-> DefaultValues,
              feedback |-> ThanksMsg,
              timers   |-> SetTimeout(st.timers, "clearFeedback",
                                      FeedbackDelayMs)]

\* The submit listener; st holds the form's values, the feedback text and
\* the timers.
SubmitListener(st) ==
    LET name    == Trim(st.form.name)
        email   == Trim(st.form.email)
        message == Trim(st.form.message)
    IN  IF name = <<>> \/ email = <<>> \/ message = <<>>
        THEN [st EXCEPT !.feedback = FillMsg]
        ELSE IF ~ReTest(email)
        THEN [st EXCEPT !.feedback = EmailMsg]
        ELSE [form     |-> DefaultValues,
              feedback |-> ThanksMsg,
              timers   |-> SetTimeout(st.timers, "clearFeedback",
                                      FeedbackDelayMs)]

RECURSIVE RunSubmitListeners(_, _)
RunSubmitListeners(st, n) ==
    IF n = 0 THEN st ELSE RunSubmitListeners(SubmitListener(st), n - 1)

\* The user edits the inputs.
TypeFields(n, e, m) ==
    /\ page.hasForm
    /\ form' = [name |-> n, email |-> e, message |-> m]
    /\ ev' = NoEvent
    /\ UNCHANGED <<envVars, loadVars, timers, setupVars, headerVars, feedback,
                   filterVars, lightboxVars>>

\* A submit event on #contactForm, dispatched to every submit listener.
\* (Before setupContactForm has run there is none, and the browser's default
\* submission, which leaves the page, is not modelled.)
Submit ==
    /\ page.hasForm
    /\ Pending(timers, "clearFeedback") + submitListeners <= MaxPending
    /\ LET st == RunSubmitListeners([form |-> form, feedback |-> feedback,
                                     timers |-> timers], submitListeners) IN
          /\ form' = st.form
          /\ feedback' = st.feedback
          /\ timers' = st.timers
    /\ ev' = [type |-> "submit", handlers |-> submitListeners, pre |-> form,
              timersBefore |-> timers]
    /\ UNCHANGED <<envVars, loadVars, setupVars, headerVars, filterVars,
                   lightboxVars>>

\* The callback of setTimeout(() => feedback.textContent = '', 6000).
FeedbackTimerFire ==
    \E i \in DOMAIN timers :
        /\ Due(timers, i)
        /\ timers[i].cb = "clearFeedback"
        /\ timers' = RemoveAt(timers, i)
        /\ feedback' = ""
        /\ ev' = [type |-> "timer", age |-> timers[i].age]
        /\ UNCHANGED <<envVars, loadVars, setupVars, headerVars, form,
                       filterVars, lightboxVars>>

(***************************************************************************)
(* The menu filter.                                                        *)
(***************************************************************************)
\* A variant that does not clear "active" from the other chips.
ChipListenerKeepsActive(st, c) ==
    LET f == PageChips[c] IN
    [active  |-> st.active \cup {c},
     display |-> [i \in DOMAIN st.display |->
                     IF f = "all" THEN ""
                     ELSE IF PageItems[i] = f THEN "" ELSE "none"]]

\* The click listener of chip c; st holds the active chips and the items'
\* display.
ChipListener(st, c) ==
    LET f == PageChips[c] IN
    [active  |-> (st.active \ DOMAIN PageChips) \cup {c},
     display |-> [i \in DOMAIN st.display |->
                     IF f = "all" THEN ""
                     ELSE IF PageItems[i] = f THEN "" ELSE "none"]]

RECURSIVE RunChipListeners(_, _, _)
RunChipListeners(st, c, n) ==
    IF n = 0 THEN st ELSE RunChipListeners(ChipListener(st, c), c, n - 1)

\* A click on chip c.
ChipClick(c) ==
    /\ c \in DOMAIN PageChips
    /\ LET st == RunChipListeners([active |-> active, display |-> display],
                                  c, chipListeners[c]) IN
          /\ active' = st.active
          /\ display' = st.display
    /\ ev' = [type |-> "chip", chip |-> c, handlers |-> chipListeners[c]]
    /\ UNCHANGED <<envVars, loadVars, timers, setupVars, headerVars, formVars,
                   lightboxVars>>

(***************************************************************************)
(* The lightbox.                                                           *)
(***************************************************************************)
\* openLightbox: a new overlay, with its own keydown handler on document.
openLightbox(st) ==
    LET used == st.overlays \cup st.keyHandlers
        o    == CHOOSE x \in 1..(Cardinality(used) + 1) :
                    x \notin used /\ \A y \in 1..(x - 1) : y \in used
    IN  [overlays    |-> st.overlays \cup {o},
         keyHandlers |-> st.keyHandlers \cup {o}]

\* A variant that removes the overlay and leaves its keydown handler.
overlayRemoveKeepsHandler(st, o) ==
    [overlays    |-> st.overlays \ {o},
     keyHandlers |-> st.keyHandlers]

\* overlayRemove of overlay o.
overlayRemove(st, o) ==
    [overlays    |-> st.overlays \ {o},
     keyHandlers |-> st.keyHandlers \ {o}]

RECURSIVE RunDocClickListeners(_, _)
RunDocClickListeners(st, n) ==
    IF n = 0 THEN st ELSE RunDocClickListeners(openLightbox(st), n - 1)

\* The handlers hs, each run with the key; a handler removes only itself.
RECURSIVE RunKeyHandlers(_, _, _)
RunKeyHandlers(st, hs, key) ==
    IF hs = {} THEN st
    ELSE LET o == CHOOSE x \in hs : \A y \in hs : x <= y IN
         RunKeyHandlers(IF key = "Escape" THEN overlayRemove(st, o) ELSE st,
                        hs \ {o}, key)

\* A click in the page, on a .photo or elsewhere, outside any overlay.
DocumentClick(onPhoto) ==
    /\ ~onPhoto \/ Cardinality(overlays) + docClickListeners <= MaxOverlays
    /\ LET st == IF onPhoto
                 THEN RunDocClickListeners([overlays |-> overlays,
                                            keyHandlers |-> keyHandlers],
                                           docClickListeners)
                 ELSE [overlays |-> overlays, keyHandlers |-> keyHandlers] IN
          /\ overlays' = st.overlays
          /\ keyHandlers' = st.keyHandlers
    /\ ev' = [type |-> "click", photo |-> onPhoto,
              listeners |-> docClickListeners, before |-> overlays]
    /\ UNCHANGED <<envVars, loadVars, timers, setupVars, headerVars, formVars,
                   filterVars>>

\* A click inside overlay o: on the overlay itself or on its image.
OverlayClick(o, onBackdrop) ==
    /\ o \in overlays
    /\ LET st0 == [overlays |-> overlays, keyHandlers |-> keyHandlers]
           st  == IF onBackdrop THEN overlayRemove(st0, o) ELSE st0 IN
          /\ overlays' = st.overlays
          /\ keyHandlers' = st.keyHandlers
    /\ ev' = [type |-> "overlayClick", target |-> o, backdrop |-> onBackdrop,
              before |-> overlays]
    /\ UNCHANGED <<envVars, loadVars, timers, setupVars, headerVars, formVars,
                   filterVars>>

\* A keydown event on document.
KeyDown(key) ==
    /\ LET st == RunKeyHandlers([overlays |-> overlays,
                                 keyHandlers |-> keyHandlers],
                                keyHandlers, key) IN
          /\ overlays' = st.overlays
          /\ keyHandlers' = st.keyHandlers
    /\ ev' = [type |-> "key", key |-> key, before |-> overlays]
    /\ UNCHANGED <<envVars, loadVars, timers, setupVars, headerVars, formVars,
                   filterVars>>

(***************************************************************************)
(* Initial states and specifications.                                      *)
(***************************************************************************)
Pages == [layout : Layouts, hasForm : BOOLEAN, hasFaders : BOOLEAN,
          chips : BOOLEAN, items : BOOLEAN, root : BOOLEAN]

\* The document as parsed, before script.js runs.
InitWith(pages, storeds, themes) ==
    /\ page \in pages
    /\ stored \in storeds
    /\ dataTheme \in themes
    /\ script = "notrun"
    /\ nav = "idle"
    /\ navOutcome = "none"
    /\ fetches = 0
    /\ fetched = "none"
    /\ container = InitialContent
    /\ dcl = "notfired"
    /\ dclListeners = 0
    /\ dclHandled = 0
    /\ timers = <<>>
    /\ navPathRuns = 0
    /\ fallbackRuns = 0
    /\ fallbackAt = -1
    /\ fadeRuns = 0
    /\ observers = 0
    /\ lightboxRuns = 0
    /\ lightboxRoots = IF page.root THEN 1 ELSE 0
    /\ docClickListeners = 0
    /\ filterRuns = 0
    /\ chipListeners = [c \in DOMAIN PageChips |-> 0]
    /\ formRuns = 0
    /\ submitListeners = 0
    /\ navFeaturesRuns = 0
    /\ scrollListeners = 0
    /\ aria = "false"
    /\ toggleListeners = <<>>
    /\ navClasses = {}
    /\ themeIcon = "markup"
    /\ themeListeners = 0
    /\ themeClicked = FALSE
    /\ form = DefaultValues
    /\ feedback = ""
    /\ active = IF page.chips THEN {1} ELSE {}
    /\ display = [i \in DOMAIN PageItems |-> ""]
    /\ overlays = {}
    /\ keyHandlers = {}
    /\ ev = NoEvent

FullPage == [layout |-> "fragment", hasForm |-> TRUE, hasFaders |-> TRUE,
             chips |-> TRUE, items |-> TRUE, root |-> FALSE]

Init == InitWith(Pages, {"none", "dark", "light"}, {"none", "dark"})

\* The loader and the two initialisation paths.
NextLoad ==
    \/ RunScript
    \/ FetchReject
    \/ FetchNotOk
    \/ FetchOk
    \/ \E html \in FragmentTexts : TextResolve(html)
    \/ TextReject
    \/ DOMContentLoaded
    \/ FallbackTimerFire
    \/ Tick

NextHeader ==
    \/ MenuToggleClick
    \/ ThemeToggleClick

NextForm ==
    \/ \E n \in Names, e \in Emails, m \in Messages : TypeFields(n, e, m)
    \/ Submit
    \/ FeedbackTimerFire

NextFilter == \E c \in DOMAIN ChipFilter : ChipClick(c)

NextLightbox ==
    \/ \E onPhoto \in BOOLEAN : DocumentClick(onPhoto)
    \/ \E o \in overlays, onBackdrop \in BOOLEAN : OverlayClick(o, onBackdrop)
    \/ \E key \in {"Escape", "Enter"} : KeyDown(key)

Next == NextLoad \/ NextHeader \/ NextForm \/ NextFilter \/ NextLightbox

Spec == Init /\ [][Next]_vars

\* The features share no state but the loader's, so each is examined under a
\* specification of its own: the loader with that feature's events, from the
\* markups that matter to it.

\* Every markup, the loader alone.
InitLoad == InitWith(Pages, {"none"}, {"none"})
SpecLoad == InitLoad /\ [][NextLoad]_vars

\* The event loop runs a timer whose delay has run out, and time passes.
SpecLoadFair == SpecLoad /\ WF_vars(Tick) /\ WF_vars(FallbackTimerFire)

\* The header: every layout, every stored theme.
InitHeader ==
    InitWith({[FullPage EXCEPT !.layout = l] : l \in Layouts},
             {"none", "dark", "light"}, {"none", "dark"})
SpecHeader == InitHeader /\ [][NextLoad \/ NextHeader]_vars

\* The contact form.
InitForm ==
    InitWith({[FullPage EXCEPT !.hasForm = b] : b \in BOOLEAN},
             {"none"}, {"none"})
SpecForm == InitForm /\ [][NextLoad \/ NextForm]_vars

\* The menu filter.
InitFilter ==
    InitWith({[FullPage EXCEPT !.chips = c, !.items = i] :
                  c \in BOOLEAN, i \in BOOLEAN}, {"none"}, {"none"})
SpecFilter == InitFilter /\ [][NextLoad \/ NextFilter]_vars

\* The lightbox.
InitLightbox ==
    InitWith({[FullPage EXCEPT !.root = r] : r \in BOOLEAN}, {"none"}, {"none"})
SpecLightbox == InitLightbox /\ [][NextLoad \/ NextLightbox]_vars


(***************************************************************************)
(* Properties.                                                             *)
(***************************************************************************)
\* The last step was a submit event that reached at least one listener.
Submitted == ev.type = "submit" /\ ev.handlers >= 1

EmptyField(f) ==
    Trim(f.name) = <<>> \/ Trim(f.email) = <<>> \/ Trim(f.message) = <<>>

ValidInput(f) == ~EmptyField(f) /\ ReTest(Trim(f.email))

FormCleared == form.name = <<>> /\ form.email = <<>> /\ form.message = <<>>

\* C1: a submit with a non-empty name and message and an email matching the
\* pattern leaves the acknowledgement as the feedback text and the fields
\* cleared, and the timer callback empties the feedback text 6000 ms after
\* the submit, however many times setupContactForm has run.
C1_ValidSubmitAcknowledged ==
    /\ (Submitted /\ ValidInput(ev.pre)) =>
           (feedback = ThanksMsg /\ FormCleared)
    /\ ev.type = "timer" => (feedback = "" /\ ev.age = 6000)

\* C2: after a successful injection the container holds the fetched text,
\* setupNavbarFeatures has run exactly once and registered one scroll, one
\* menu-toggle and one theme-toggle listener, and a click on the menu toggle
\* runs exactly one flip of aria-expanded.
C2_InjectedAndWiredOnce ==
    navOutcome = "injected" =>
        /\ container = fetched
        /\ navFeaturesRuns = 1
        /\ scrollListeners = 1
        /\ page.layout # "none" =>
               /\ Cardinality({i \in DOMAIN toggleListeners :
                                   toggleListeners[i] = "open"}) = 1
               /\ themeListeners = 1
        /\ ev.type = "menu" => ev.flips = 1

\* C9: aria-expanded of the menu toggle is "true" exactly when the navigation
\* list carries the class "open", wherever #menuToggle comes from.
C9_AriaMatchesOpen ==
    HeaderInDocument => ((aria = "true") <=> ("open" \in navClasses))

FetchFailed == navOutcome \in {"networkError", "httpError"}

FallbackPending == Pending(timers, "fallback") > 0

AllRanTwice ==
    fadeRuns = 2 /\ lightboxRuns = 2 /\ filterRuns = 2 /\ formRuns = 2

C3_Safe ==
    /\ FetchFailed =>
           /\ container = InitialContent
           /\ fetched = "none"
           /\ navFeaturesRuns = 0
           /\ toggleListeners \in {<<>>, <<"show">>}
           /\ fetches = 1
           /\ nav = "fulfilled"
    /\ nav # "rejected"
    /\ dclHandled > 0 => (FallbackPending \/ fallbackRuns = 1)
    /\ fallbackRuns >= 1 =>
           /\ fallbackAt = 90
           /\ fadeRuns >= 1 /\ lightboxRuns >= 1
           /\ filterRuns >= 1 /\ formRuns >= 1
    /\ (FetchFailed /\ fallbackRuns >= 1) => AllRanTwice

\* C3: after a failed fetch (network error or a response that is not ok) the
\* container is unchanged, setupNavbarFeatures has not run, one fetch was
\* issued, loadNavbar has returned normally, and once DOMContentLoaded has
\* reached the listener of init the fallback callback runs the four
\* initialisers, 90 ms after the event.
C3_FailedFetchFallsBack ==
    /\ []C3_Safe
    /\ (FetchFailed /\ dclHandled > 0) ~> (fallbackRuns = 1 /\ AllRanTwice)

C3_Witness ==
    /\ navOutcome = "httpError"
    /\ fallbackRuns = 1
    /\ fallbackAt = 90
    /\ formRuns = 2

\* C4: a handled theme-toggle click in the light state sets the persisted
\* flag and data-theme to "dark", one in the dark state removes both; after
\* any handled click the flag is "dark" exactly when data-theme is "dark",
\* and the icon is the sun exactly then.
C4_ThemeFlagMatchesAttribute ==
    /\ themeClicked =>
           /\ navFeaturesRuns = 1
           /\ (stored = "dark") <=> (dataTheme = "dark")
           /\ (themeIcon = "sun") <=> (dataTheme = "dark")
    /\ (ev.type = "theme" /\ ev.handlers >= 1 /\ ~ev.wasDark) =>
           (stored = "dark" /\ dataTheme = "dark")
    /\ (ev.type = "theme" /\ ev.handlers >= 1 /\ ev.wasDark) =>
           (stored = "none" /\ dataTheme = "none")

C4_Witness ==
    /\ ev.type = "theme"
    /\ ev.handlers = 1
    /\ ev.wasDark
    /\ stored = "none"
    /\ themeIcon = "moon"

\* C5: a submit with an empty trimmed field leaves the fill-in message as the
\* feedback text, the fields as they were and the timers as they were, also
\* when the email does not match the pattern.
C5_EmptyFieldReported ==
    (Submitted /\ EmptyField(ev.pre)) =>
        /\ feedback = FillMsg
        /\ form = ev.pre
        /\ timers = ev.timersBefore

C5_Witness ==
    /\ ev.type = "submit"
    /\ ev.handlers = 2
    /\ Trim(ev.pre.name) = <<>>
    /\ ev.pre.email = <<"n", "o">>
    /\ feedback = FillMsg

\* C6: a submit with three non-empty trimmed fields and an email that does
\* not match the pattern leaves the valid-email message as the feedback text
\* and the fields as they were, with one submit listener or with two.
C6_InvalidEmailReported ==
    (Submitted /\ ~EmptyField(ev.pre) /\ ~ReTest(Trim(ev.pre.email))) =>
        /\ feedback = EmailMsg
        /\ form = ev.pre
        /\ timers = ev.timersBefore

C6_Witness ==
    /\ ev.type = "submit"
    /\ ev.handlers = 2
    /\ ev.pre = [name |-> <<"J">>, email |-> <<"a", "@", "b">>,
                 message |-> <<"H">>]
    /\ feedback = EmailMsg

\* C7: after a handled click on the chip with token f every item is shown if
\* f is "all", and otherwise shown exactly when its category is f; the
\* clicked chip is the only active one.
C7_FilterShowsCategory ==
    (ev.type = "chip" /\ ev.handlers >= 1) =>
        /\ active = {ev.chip}
        /\ \A i \in DOMAIN display :
               display[i] = IF ChipFilter[ev.chip] = "all" THEN ""
                            ELSE IF ItemCategory[i] = ChipFilter[ev.chip]
                            THEN "" ELSE "none"

C7_Witness ==
    /\ ev.type = "chip"
    /\ ev.handlers = 2
    /\ ChipFilter[ev.chip] = "drinks"
    /\ display = <<"", "none", "none">>
    /\ active = {ev.chip}

\* C8: each initialiser has run once for the settled loadNavbar (fulfilled on
\* success and on failure) plus once for the fallback callback; a
\* DOMContentLoaded that reached the listener of init leaves that callback
\* pending or run; and after both paths every initialiser has run twice and
\* the document click, chip click and submit listeners are registered twice.
C8_FeaturesInitialisedTwice ==
    /\ navPathRuns = (IF nav = "fulfilled" THEN 1 ELSE 0)
    /\ nav = "fulfilled" <=> navOutcome # "none"
    /\ fadeRuns = navPathRuns + fallbackRuns
    /\ lightboxRuns = navPathRuns + fallbackRuns
    /\ filterRuns = navPathRuns + fallbackRuns
    /\ formRuns = navPathRuns + fallbackRuns
    /\ dclHandled > 0 => (FallbackPending \/ fallbackRuns = 1)
    /\ (navPathRuns = 1 /\ fallbackRuns = 1) =>
           /\ AllRanTwice
           /\ docClickListeners = 2
           /\ page.hasForm => submitListeners = 2
           /\ (page.chips /\ page.items) =>
                  \A c \in DOMAIN chipListeners : chipListeners[c] = 2

C8_Witness ==
    /\ navOutcome = "injected"
    /\ fallbackRuns = 1
    /\ page.hasForm /\ page.chips /\ page.items
    /\ submitListeners = 2
    /\ docClickListeners = 2

\* C10: the keydown handlers of openLightbox are as many as the attached
\* overlays; a backdrop click removes that overlay and its handler and no
\* other; after an Escape key press no overlay and no handler remains; and
\* the document holds at most one #lightbox-root.
C10_LightboxLeaksNothing ==
    /\ Cardinality(keyHandlers) = Cardinality(overlays)
    /\ (ev.type = "overlayClick" /\ ev.backdrop) =>
           /\ overlays = ev.before \ {ev.target}
           /\ keyHandlers = ev.before \ {ev.target}
    /\ (ev.type = "key" /\ ev.key = "Escape") =>
           (overlays = {} /\ keyHandlers = {})
    /\ lightboxRoots <= 1
    /\ lightboxRuns >= 1 => lightboxRoots = 1

C10_Witness ==
    /\ ev.type = "key"
    /\ ev.key = "Escape"
    /\ Cardinality(ev.before) >= 2
    /\ lightboxRuns = 2
    /\ overlays = {}

====
